---- MODULE Spec2Model ----
(***************************************************************************)
(* A model of paramiko's RSAKey (paramiko/rsakey.py).                      *)
(*                                                                         *)
(* An RSAKey instance is its `key` handle.  The wire codec                 *)
(* (paramiko.message.Message), the private-key file reader/writer          *)
(* (paramiko.pkey.PKey) and the crypto provider (cryptography) are         *)
(* collaborators: they are modelled by what their calls in rsakey.py       *)
(* compute, on byte sequences and on small textbook-RSA key pairs.         *)
(***************************************************************************)
EXTENDS Integers, Sequences, FiniteSets, TLC

(***************************************************************************)
(* Optional values: None is the empty sequence, Some(x) a one-element one. *)
(***************************************************************************)
None == << >>
Some(x) == << x >>
IsNone(o) == o = << >>
Get(o) == o[1]

(***************************************************************************)
(* Exceptions: a class and a message.                                      *)
(***************************************************************************)
Exc(cls, text) == [cls |-> cls, text |-> text]
NoExc == Exc("", "")

(***************************************************************************)
(* Bytes and text.  Texts are ASCII, so a text is its byte sequence.       *)
(***************************************************************************)
SSH_RSA == << 115, 115, 104, 45, 114, 115, 97 >>     \* "ssh-rsa"
SSH_DSS == << 115, 115, 104, 45, 100, 115, 115 >>    \* "ssh-dss"

RECURSIVE Pow256(_)
Pow256(k) == IF k = 0 THEN 1 ELSE 256 * Pow256(k - 1)

\* Big-endian bytes <-> unsigned integer.
RECURSIVE OS2IP(_)
OS2IP(s) ==
    IF s = << >> THEN 0
    ELSE 256 * OS2IP(SubSeq(s, 1, Len(s) - 1)) + s[Len(s)]

RECURSIVE I2OSPMin(_)
I2OSPMin(v) ==
    IF v = 0 THEN << >> ELSE Append(I2OSPMin(v \div 256), v % 256)

RECURSIVE I2OSP(_, _)
I2OSP(v, k) ==
    IF k = 0 THEN << >> ELSE Append(I2OSP(v \div 256, k - 1), v % 256)

RECURSIVE BitLength(_)
BitLength(v) == IF v = 0 THEN 0 ELSE 1 + BitLength(v \div 2)

(***************************************************************************)
(* Wire codec (paramiko.message.Message): length-prefixed strings and      *)
(* sign-padded big-endian integers.  A message is its packet bytes; reads  *)
(* take a position and return the value and the position after it.         *)
(***************************************************************************)
\* util.deflate_long for v >= 0: minimal bytes, 0x00 in front when the top
\* bit of the first byte is set.
deflate_long(v) ==
    LET s == I2OSPMin(v)
    IN  IF s # << >> /\ s[1] >= 128 THEN << 0 >> \o s ELSE s

\* util.inflate_long: two's complement, big-endian.
inflate_long(s) ==
    IF s = << >> THEN 0
    ELSE IF s[1] >= 128 THEN OS2IP(s) - Pow256(Len(s))
    ELSE OS2IP(s)

add_int(m, v) == m \o I2OSP(v, 4)
add_string(m, s) == add_int(m, Len(s)) \o s
add_mpint(m, v) == add_string(m, deflate_long(v))

ReadOk(val, pos) == [ok |-> TRUE, val |-> val, pos |-> pos]
ReadFail(pos) == [ok |-> FALSE, val |-> << >>, pos |-> pos]

\* A field that runs past the end of the packet is a decoding error.
TruncatedField == Exc("SSHException", "truncated field")

get_int(m, pos) ==
    IF pos + 4 > Len(m) THEN ReadFail(pos)
    ELSE ReadOk(OS2IP(SubSeq(m, pos + 1, pos + 4)), pos + 4)

get_string(m, pos) ==
    LET n == get_int(m, pos)
    IN  IF ~n.ok THEN ReadFail(pos)
        ELSE IF n.pos + n.val > Len(m) THEN ReadFail(pos)
        ELSE ReadOk(SubSeq(m, n.pos + 1, n.pos + n.val), n.pos + n.val)

get_text(m, pos) == get_string(m, pos)
get_binary(m, pos) == get_string(m, pos)

get_mpint(m, pos) ==
    LET s == get_string(m, pos)
    IN  IF ~s.ok THEN [ok |-> FALSE, val |-> 0, pos |-> pos]
        ELSE [ok |-> TRUE, val |-> inflate_long(s.val), pos |-> s.pos]

(***************************************************************************)
(* Crypto provider (cryptography.hazmat): key handles, RSA sign/verify,    *)
(* DER private-key parsing.  Key pairs are textbook RSA on small moduli.   *)
(***************************************************************************)
KeyPair(n, e, d) == [n |-> n, e |-> e, d |-> d]

\* Key pairs found in key files and handed in as handles.
K1 == KeyPair(33, 3, 7)         \* modulus 0x21
K2 == KeyPair(143, 7, 103)      \* modulus 0x8F: top bit set, mpint is padded
\* The key pair generate_private_key(65537, 17) returns.
KGen == KeyPair(67591, 65537, 63489)
KeyPairs == { K1, K2, KGen }

\* A key handle; the private exponent d is 0 when the handle has none.
Handle(type, kp, d) == [type |-> type, n |-> kp.n, e |-> kp.e, d |-> d]
NoneKey == [type |-> "NoneType", n |-> 0, e |-> 0, d |-> 0]
RSAPrivateKey(kp) == Handle("RSAPrivateKey", kp, kp.d)
RSAPublicKey(e, n) == [type |-> "RSAPublicKey", n |-> n, e |-> e, d |-> 0]
DSAPrivateKey == [type |-> "DSAPrivateKey", n |-> 0, e |-> 0, d |-> 1]

isinstance(key, type) == key.type = type
HoldsPrivateMaterial(key) == key.d # 0

\* rsa.RSAPublicNumbers(e, n).public_key(backend) checks the numbers.
ValidPublicNumbers(e, n) == n >= 3 /\ e >= 3 /\ e < n /\ e % 2 = 1

\* key.public_key() of a private handle.
public_key(key) == RSAPublicKey(key.e, key.n)

\* key.private_numbers() of a private handle, key.public_numbers() of a
\* public one.
PublicNumbers(e, n) == [e |-> e, n |-> n]
private_numbers(key) == [d |-> key.d, public_numbers |-> PublicNumbers(key.e, key.n)]
public_numbers_of(key) == PublicNumbers(key.e, key.n)

key_size(key) == BitLength(key.n)

\* Modular arithmetic on numbers below 2^17, without leaving 32 bits.
MulMod(a, b, n) == ((((a * (b \div 256)) % n) * 256) + a * (b % 256)) % n

RECURSIVE PowMod(_, _, _)
PowMod(a, x, n) ==
    IF x = 0 THEN 1 % n
    ELSE LET h == PowMod(a, x \div 2, n)
             t == MulMod(h, h, n)
         IN  IF x % 2 = 1 THEN MulMod(t, a % n, n) ELSE t

\* Payloads: bytes, or an object that is not bytes (a text string).
Bytes(b) == [type |-> "bytes", val |-> b]
NotBytes == [type |-> "str", val |-> << >>]

\* The PKCS#1 v1.5 / SHA-1 encoded message of a payload, as a number below n.
RECURSIVE Digest(_)
Digest(b) ==
    IF b = << >> THEN 5
    ELSE (Digest(SubSeq(b, 1, Len(b) - 1)) * 31 + b[Len(b)] + 1) % 65521

EncodedMessage(b, n) == Digest(b) % n

SigLen(key) == (key_size(key) + 7) \div 8

\* key.sign(data, padding, algorithm) of a private handle.
ProviderSign(key, data) ==
    IF data.type # "bytes"
    THEN [exc |-> Exc("TypeError", "data must be bytes-like"), sig |-> << >>]
    ELSE [exc |-> NoExc,
          sig |-> I2OSP(PowMod(EncodedMessage(data.val, key.n), key.d, key.n),
                        SigLen(key))]

\* key.verify(signature, data, padding, algorithm) of a public handle:
\* NoExc on success, otherwise the exception raised.
ProviderVerify(key, sig, data) ==
    IF data.type # "bytes"
    THEN Exc("TypeError", "data must be bytes-like")
    ELSE IF Len(sig) # SigLen(key) \/ OS2IP(sig) >= key.n
    THEN Exc("InvalidSignature", "")
    ELSE IF PowMod(OS2IP(sig), key.e, key.n) = EncodedMessage(data.val, key.n)
    THEN NoExc
    ELSE Exc("InvalidSignature", "")

\* DER private-key blobs.
Der(fmt, kp) == [fmt |-> fmt, kp |-> kp]
NoKeyPair == KeyPair(0, 0, 0)
DerCorrupt == Der("corrupt", NoKeyPair)
DerEncrypted == Der("encrypted-pkcs8", K1)
DerDSA == Der("dsa", NoKeyPair)

\* serialization.load_der_private_key(data, password=None, backend).
load_der_private_key(data) ==
    CASE data.fmt = "rsa" ->
            [exc |-> NoExc, key |-> RSAPrivateKey(data.kp)]
      [] data.fmt = "dsa" ->
            [exc |-> NoExc, key |-> DSAPrivateKey]
      [] data.fmt = "encrypted-pkcs8" ->
            [exc |-> Exc("TypeError", "Password was not given but private key is encrypted"),
             key |-> NoneKey]
      [] OTHER ->
            [exc |-> Exc("ValueError", "Could not deserialize key data."),
             key |-> NoneKey]

\* rsa.generate_private_key(public_exponent=65537, key_size=bits, backend).
generate_private_key(bits) ==
    IF bits = BitLength(KGen.n)
    THEN [exc |-> NoExc, key |-> RSAPrivateKey(KGen)]
    ELSE [exc |-> Exc("ValueError", "key_size must be at least 512-bits."),
          key |-> NoneKey]

(***************************************************************************)
(* Private-key files (paramiko.pkey.PKey): a container has a tag, an       *)
(* optional passphrase and the DER blob inside.                            *)
(***************************************************************************)
Container(tag, password, der) == [tag |-> tag, password |-> password, der |-> der]

\* PKey._read_private_key(tag, f, password): the DER blob, or an exception.
_read_private_key(tag, f, password) ==
    IF f.tag # tag
    THEN [exc |-> Exc("SSHException", "not a valid RSA private key file"),
          data |-> DerCorrupt]
    ELSE IF ~IsNone(f.password) /\ IsNone(password)
    THEN [exc |-> Exc("SSHException", "Private key file is encrypted"),
          data |-> DerCorrupt]
    ELSE IF ~IsNone(f.password) /\ f.password # password
    THEN [exc |-> Exc("SSHException", "Unable to parse key file"), data |-> DerCorrupt]
    ELSE [exc |-> NoExc, data |-> f.der]

\* PKey._read_private_key_file: opens the path first.
_read_private_key_file(tag, filename, password, fs) ==
    IF IsNone(fs[filename])
    THEN [exc |-> Exc("IOError", "No such file or directory"), data |-> DerCorrupt]
    ELSE _read_private_key(tag, Get(fs[filename]), password)

\* PKey._write_private_key(f, key, format, password): key.private_bytes(...)
\* exists on private handles only.
_write_private_key(key, password) ==
    IF ~isinstance(key, "RSAPrivateKey")
    THEN [exc |-> Exc("AttributeError", "no attribute 'private_bytes'"),
          out |-> None]
    ELSE [exc |-> NoExc,
          out |-> Some(Container("RSA", password,
                                 Der("rsa", KeyPair(key.n, key.e, key.d))))]

(***************************************************************************)
(* RSAKey                                                                  *)
(***************************************************************************)
\* The outcome of a construction: the instance's key, the exception raised
\* (NoExc when none), the source that was used and the number of integers
\* read from the wire message.
Built(key, exc, source, mpints) ==
    [key |-> key, exc |-> exc, source |-> source, mpints |-> mpints]

\* RSAKey._decode_key
_decode_key(data, source) ==
    LET r == load_der_private_key(data)
    IN  IF r.exc.cls = "ValueError"
        THEN Built(NoneKey, Exc("SSHException", r.exc.text), source, 0)
        ELSE IF r.exc # NoExc
        THEN Built(NoneKey, r.exc, source, 0)
        ELSE IF ~isinstance(r.key, "RSAPrivateKey")
        THEN Built(NoneKey, Exc("AssertionError", ""), source, 0)
        ELSE Built(r.key, NoExc, source, 0)

\* RSAKey._from_private_key
_from_private_key(file_obj, password) ==
    LET d == _read_private_key("RSA", file_obj, password)
    IN  IF d.exc # NoExc THEN Built(NoneKey, d.exc, "file_obj", 0)
        ELSE _decode_key(d.data, "file_obj")

\* RSAKey._from_private_key_file
_from_private_key_file(filename, password, fs) ==
    LET d == _read_private_key_file("RSA", filename, password, fs)
    IN  IF d.exc # NoExc THEN Built(NoneKey, d.exc, "filename", 0)
        ELSE _decode_key(d.data, "filename")

\* Variant: the name is accepted when it starts with "ssh-rsa".
FromMessage_PrefixName(packet) ==
    LET name == get_text(packet, 0)
        e == get_mpint(packet, name.pos)
        n == get_mpint(packet, e.pos)
    IN  IF ~name.ok THEN Built(NoneKey, TruncatedField, "msg", 0)
        ELSE IF Len(name.val) < Len(SSH_RSA)
                  \/ SubSeq(name.val, 1, Len(SSH_RSA)) # SSH_RSA
        THEN Built(NoneKey, Exc("SSHException", "Invalid key"), "msg", 0)
        ELSE IF ~e.ok THEN Built(NoneKey, TruncatedField, "msg", 0)
        ELSE IF ~n.ok THEN Built(NoneKey, TruncatedField, "msg", 1)
        ELSE IF ~ValidPublicNumbers(e.val, n.val)
        THEN Built(NoneKey, Exc("ValueError", "invalid public numbers"), "msg", 2)
        ELSE Built(RSAPublicKey(e.val, n.val), NoExc, "msg", 2)

\* The wire-message branch of RSAKey.__init__ (msg is not None).
FromMessage(packet) ==
    LET name == get_text(packet, 0)
        e == get_mpint(packet, name.pos)
        n == get_mpint(packet, e.pos)
    IN  IF ~name.ok THEN Built(NoneKey, TruncatedField, "msg", 0)
        ELSE IF name.val # SSH_RSA
        THEN Built(NoneKey, Exc("SSHException", "Invalid key"), "msg", 0)
        ELSE IF ~e.ok THEN Built(NoneKey, TruncatedField, "msg", 0)
        ELSE IF ~n.ok THEN Built(NoneKey, TruncatedField, "msg", 1)
        ELSE IF ~ValidPublicNumbers(e.val, n.val)
        THEN Built(NoneKey, Exc("ValueError", "invalid public numbers"), "msg", 2)
        ELSE Built(RSAPublicKey(e.val, n.val), NoExc, "msg", 2)

\* Constructor arguments; every one is optional.
Args(msg, data, filename, password, key, file_obj) ==
    [msg |-> msg, data |-> data, filename |-> filename, password |-> password,
     key |-> key, file_obj |-> file_obj]

\* Variant: a message or raw data is parsed before a key handle is looked at.
RSAKeyInit_MessageFirst(a, fs) ==
    IF ~IsNone(a.file_obj) THEN _from_private_key(Get(a.file_obj), a.password)
    ELSE IF ~IsNone(a.filename)
    THEN _from_private_key_file(Get(a.filename), a.password, fs)
    ELSE LET msg == IF IsNone(a.msg) /\ ~IsNone(a.data) THEN a.data ELSE a.msg
         IN  IF ~IsNone(msg) THEN FromMessage(Get(msg))
             ELSE IF ~IsNone(a.key) THEN Built(Get(a.key), NoExc, "key", 0)
             ELSE Built(NoneKey, Exc("SSHException", "Key object may not be empty"),
                        "none", 0)

\* RSAKey.__init__
RSAKeyInit(a, fs) ==
    IF ~IsNone(a.file_obj) THEN _from_private_key(Get(a.file_obj), a.password)
    ELSE IF ~IsNone(a.filename)
    THEN _from_private_key_file(Get(a.filename), a.password, fs)
    ELSE LET msg == IF IsNone(a.msg) /\ ~IsNone(a.data) THEN a.data ELSE a.msg
         IN  IF ~IsNone(a.key) THEN Built(Get(a.key), NoExc, "key", 0)
             ELSE IF IsNone(msg)
             THEN Built(NoneKey, Exc("SSHException", "Key object may not be empty"),
                        "none", 0)
             ELSE FromMessage(Get(msg))

\* RSAKey.size
size(key) == key_size(key)

\* RSAKey.public_numbers
public_numbers(key) ==
    IF isinstance(key, "RSAPrivateKey") THEN private_numbers(key).public_numbers
    ELSE public_numbers_of(key)

\* RSAKey.get_name
get_name == SSH_RSA

\* Variant: the modulus is written before the exponent.
asbytes_ModulusFirst(key) ==
    add_mpint(add_mpint(add_string(<< >>, get_name), public_numbers(key).n),
              public_numbers(key).e)

\* RSAKey.asbytes
asbytes(key) ==
    add_mpint(add_mpint(add_string(<< >>, get_name), public_numbers(key).e),
              public_numbers(key).n)

\* bytes.decode("utf8", errors="ignore") on an encoding without multi-byte
\* characters: the bytes that are not ASCII are dropped.
RECURSIVE DecodeIgnore(_)
DecodeIgnore(b) ==
    IF b = << >> THEN << >>
    ELSE IF b[1] < 128 THEN << b[1] >> \o DecodeIgnore(Tail(b))
    ELSE DecodeIgnore(Tail(b))

\* RSAKey.__str__
str(key, py2) == IF py2 THEN asbytes(key) ELSE DecodeIgnore(asbytes(key))

\* hash() of a string, fixed within one interpreter process.
RECURSIVE HashStr(_)
HashStr(t) ==
    IF t = << >> THEN 0
    ELSE (HashStr(SubSeq(t, 1, Len(t) - 1)) * 3 + t[Len(t)]) % 1021

\* hash() of an integer below 2^61 - 1 in absolute value.
HashInt(x) == IF x = -1 THEN -2 ELSE x

\* Variant: the private exponent is hashed too.
hash_WithPrivate(key) ==
    LET h0 == HashStr(get_name)
        h1 == h0 * 37 + HashInt(public_numbers(key).e)
        h2 == h1 * 37 + HashInt(public_numbers(key).n)
    IN  HashInt(h2 + HashInt(key.d))

\* RSAKey.__hash__
hash(key) ==
    LET h0 == HashStr(get_name)
        h1 == h0 * 37 + HashInt(public_numbers(key).e)
        h2 == h1 * 37 + HashInt(public_numbers(key).n)
    IN  HashInt(h2)

\* RSAKey.get_bits
get_bits(key) == size(key)

\* Variant: any key handle counts.
can_sign_AnyHandle(key) == ~isinstance(key, "NoneType")

\* RSAKey.can_sign
can_sign(key) == isinstance(key, "RSAPrivateKey")

\* The provider API in use: one-shot key.sign/key.verify, or the older
\* signer()/verifier() contexts (the hasattr tests of sign_ssh_data and
\* verify_ssh_sig).
ProviderApis == { "oneshot", "context" }
hasattr(key, attr, api) ==
    CASE attr = "sign" -> api = "oneshot" /\ isinstance(key, "RSAPrivateKey")
      [] attr = "signer" -> api = "context" /\ isinstance(key, "RSAPrivateKey")
      [] attr = "verify" -> api = "oneshot" /\ isinstance(key, "RSAPublicKey")
      [] attr = "verifier" -> api = "context" /\ isinstance(key, "RSAPublicKey")
      [] OTHER -> FALSE

\* Variant: the signature is written before the name.
sign_ssh_data_SignatureFirst(key, data, api) ==
    LET has == hasattr(key, "sign", api) \/ hasattr(key, "signer", api)
        r == ProviderSign(key, data)
    IN  IF ~has
        THEN [exc |-> Exc("AttributeError", "no attribute 'signer'"),
              msg |-> << >>, key |-> key]
        ELSE IF r.exc # NoExc THEN [exc |-> r.exc, msg |-> << >>, key |-> key]
        ELSE [exc |-> NoExc,
              msg |-> add_string(add_string(<< >>, r.sig), SSH_RSA),
              key |-> key]

\* RSAKey.sign_ssh_data: the exception raised, or the signature message.
sign_ssh_data(key, data, api) ==
    LET has == hasattr(key, "sign", api) \/ hasattr(key, "signer", api)
        r == ProviderSign(key, data)
    IN  IF ~has
        THEN [exc |-> Exc("AttributeError", "no attribute 'signer'"),
              msg |-> << >>, key |-> key]
        ELSE IF r.exc # NoExc THEN [exc |-> r.exc, msg |-> << >>, key |-> key]
        ELSE [exc |-> NoExc,
              msg |-> add_string(add_string(<< >>, SSH_RSA), r.sig),
              key |-> key]

\* Variant: InvalidSignature is not caught.
verify_ssh_sig_Uncaught(key, data, msg, api) ==
    LET name == get_text(msg, 0)
        pub == IF isinstance(key, "RSAPrivateKey") THEN public_key(key) ELSE key
        sig == get_binary(msg, name.pos)
        has == hasattr(pub, "verify", api) \/ hasattr(pub, "verifier", api)
        v == ProviderVerify(pub, sig.val, data)
        out(exc, ret) == [exc |-> exc, ret |-> ret, key |-> key]
    IN  IF ~name.ok THEN out(TruncatedField, FALSE)
        ELSE IF name.val # SSH_RSA THEN out(NoExc, FALSE)
        ELSE IF ~sig.ok THEN out(TruncatedField, FALSE)
        ELSE IF ~has
        THEN out(Exc("AttributeError", "no attribute 'verifier'"), FALSE)
        ELSE IF v # NoExc THEN out(v, FALSE)
        ELSE out(NoExc, TRUE)

\* Variant: the derived public key is stored in self.key.
verify_ssh_sig_StoresPublic(key, data, msg, api) ==
    LET name == get_text(msg, 0)
        pub == IF isinstance(key, "RSAPrivateKey") THEN public_key(key) ELSE key
        sig == get_binary(msg, name.pos)
        has == hasattr(pub, "verify", api) \/ hasattr(pub, "verifier", api)
        v == ProviderVerify(pub, sig.val, data)
        out(exc, ret) == [exc |-> exc, ret |-> ret, key |-> pub]
    IN  IF ~name.ok THEN out(TruncatedField, FALSE)
        ELSE IF name.val # SSH_RSA THEN [exc |-> NoExc, ret |-> FALSE, key |-> key]
        ELSE IF ~sig.ok THEN out(TruncatedField, FALSE)
        ELSE IF ~has
        THEN out(Exc("AttributeError", "no attribute 'verifier'"), FALSE)
        ELSE IF v.cls = "InvalidSignature" THEN out(NoExc, FALSE)
        ELSE IF v # NoExc THEN out(v, FALSE)
        ELSE out(NoExc, TRUE)

\* RSAKey.verify_ssh_sig: the exception raised, or the boolean returned.
verify_ssh_sig(key, data, msg, api) ==
    LET name == get_text(msg, 0)
        pub == IF isinstance(key, "RSAPrivateKey") THEN public_key(key) ELSE key
        sig == get_binary(msg, name.pos)
        has == hasattr(pub, "verify", api) \/ hasattr(pub, "verifier", api)
        v == ProviderVerify(pub, sig.val, data)
        out(exc, ret) == [exc |-> exc, ret |-> ret, key |-> key]
    IN  IF ~name.ok THEN out(TruncatedField, FALSE)
        ELSE IF name.val # SSH_RSA THEN out(NoExc, FALSE)
        ELSE IF ~sig.ok THEN out(TruncatedField, FALSE)
        ELSE IF ~has
        THEN out(Exc("AttributeError", "no attribute 'verifier'"), FALSE)
        ELSE IF v.cls = "InvalidSignature" THEN out(NoExc, FALSE)
        ELSE IF v # NoExc THEN out(v, FALSE)
        ELSE out(NoExc, TRUE)

\* RSAKey.write_private_key / write_private_key_file: the exception raised,
\* what was written, and self.key afterwards.
write_private_key(key, password) ==
    LET w == _write_private_key(key, password)
    IN  [exc |-> w.exc, out |-> w.out, key |-> key]

(***************************************************************************)
(* Bounds and inputs                                                       *)
(***************************************************************************)
MaxPayloadLen == 1      \* length of a signed payload

\* Two RSAKey instances at a time.
Slots == { 1, 2 }

PayloadBytes == { 255 }
RECURSIVE SeqsUpTo(_)
SeqsUpTo(k) ==
    IF k = 0 THEN { << >> }
    ELSE LET shorter == SeqsUpTo(k - 1)
         IN  shorter \cup { Append(q, b) : q \in shorter, b \in PayloadBytes }

Payloads == { Bytes(b) : b \in SeqsUpTo(MaxPayloadLen) } \cup { NotBytes }

Passwords == { None, Some("secret") }
Filenames == { "id_rsa" }

\* Wire encodings offered to the constructor.
WireOf(kp) == asbytes(RSAPublicKey(kp.e, kp.n))
WireNamed(name) == add_mpint(add_mpint(add_string(<< >>, name), K1.e), K1.n)
WireBadName == WireNamed(SSH_DSS)
\* Names that are not "ssh-rsa": another algorithm, the empty string, a
\* proper prefix, a proper extension, another case.
BadNames ==
    { SSH_DSS, << >>, SubSeq(SSH_RSA, 1, 6), SSH_RSA \o << 0 >>,
      << 83, 83, 72, 45, 82, 83, 65 >> }
WireTruncated == SubSeq(WireOf(K1), 1, Len(WireOf(K1)) - 1)
\* n's length prefix says 1, two bytes follow.
WireShortPrefix ==
    add_int(add_mpint(add_string(<< >>, SSH_RSA), 3), 1) \o << 35, 1 >>
WireEvenExponent == add_mpint(add_mpint(add_string(<< >>, SSH_RSA), 4), 33)
WireBlobs ==
    { WireOf(kp) : kp \in KeyPairs }
        \cup { WireNamed(name) : name \in BadNames }
        \cup { WireTruncated, WireShortPrefix, WireEvenExponent, << >> }

\* Private-key streams offered to the constructor.
Streams ==
    { Container("RSA", None, Der("rsa", K1)),
      Container("RSA", Some("secret"), Der("rsa", K2)),
      Container("RSA", None, DerCorrupt),
      Container("RSA", None, DerEncrypted),
      Container("RSA", None, DerDSA),
      Container("DSA", None, DerDSA) }

\* Key handles offered to the constructor.
KeyHandles == { RSAPrivateKey(K2), RSAPublicKey(K1.e, K1.n) }

\* Key sizes asked of generate().
GenerateBits == { 0, 17 }

NoArgs == Args(None, None, None, None, None, None)

Opt(S) == { None } \cup { Some(x) : x \in S }

\* Every combination of sources.
AllArgs ==
    { Args(m, d, f, p, k, o) :
        m \in Opt({ WireOf(K1), WireBadName }),
        d \in Opt({ WireOf(K2), WireTruncated }),
        f \in Opt(Filenames),
        p \in Passwords,
        k \in Opt(KeyHandles),
        o \in Opt({ Container("RSA", None, Der("rsa", K1)),
                    Container("RSA", None, DerCorrupt) }) }

\* One source at a time, and a key handle together with a message.
UsualArgs ==
    { NoArgs }
        \cup { Args(Some(w), None, None, None, None, None) : w \in WireBlobs }
        \cup { Args(None, Some(w), None, None, None, None) : w \in WireBlobs }
        \cup { Args(None, None, Some(f), p, None, None) :
                 f \in Filenames, p \in Passwords }
        \cup { Args(None, None, None, p, None, Some(o)) :
                 p \in Passwords, o \in Streams }
        \cup { Args(None, None, None, None, Some(k), None) : k \in KeyHandles }
        \cup { Args(Some(w), None, None, None, Some(k), None) :
                 w \in { WireOf(K2), WireBadName }, k \in KeyHandles }

\* Signature messages offered to verify_ssh_sig.
GoodSigMsg == sign_ssh_data(RSAPrivateKey(K1), Bytes(<< >>), "oneshot").msg
GoodSig == get_binary(GoodSigMsg, get_text(GoodSigMsg, 0).pos).val
SigMsgs ==
    { GoodSigMsg,
      add_string(add_string(<< >>, SSH_RSA), << (GoodSig[1] + 1) % 32 >>),
      add_string(add_string(<< >>, SSH_RSA), GoodSig \o << 0 >>),
      add_string(add_string(<< >>, SSH_DSS), GoodSig) }

\* The ones offered where every operation is exercised.
UsualSigMsgs ==
    { GoodSigMsg,
      add_string(add_string(<< >>, SSH_DSS), GoodSig),
      SubSeq(GoodSigMsg, 1, Len(GoodSigMsg) - 1) }

\* Arguments that build the keys signatures are made and checked with.
SigArgs ==
    { Args(None, None, None, None, None,
           Some(Container("RSA", None, Der("rsa", K1)))),
      Args(None, None, None, None, Some(RSAPrivateKey(K2)), None),
      Args(Some(WireOf(K1)), None, None, None, None, None),
      Args(None, Some(WireOf(K2)), None, None, None, None),
      Args(None, Some(WireOf(KGen)), None, None, None, None) }

(***************************************************************************)
(* State                                                                   *)
(***************************************************************************)
VARIABLES
    keys,       \* keys[s]: the RSAKey instance in slot s
    files,      \* files[name]: the private-key container at a path, if any
    last,       \* the last call and what it returned or raised
    lastArgs    \* the arguments of the last constructor call, when recorded

vars == << keys, files, last, lastArgs >>

\* An instance: "new" before __init__ ran, "ok" after it returned,
\* "failed" after it raised.
Instance(state, key) == [state |-> state, key |-> key]

Call(op, slot, exc, ret, bytes, src, num) ==
    [op |-> op, slot |-> slot, exc |-> exc, ret |-> ret, bytes |-> bytes,
     src |-> src, num |-> num, data |-> Bytes(<< >>)]

Init ==
    /\ keys = [s \in Slots |-> Instance("new", NoneKey)]
    /\ files = [f \in Filenames |-> Some(Container("RSA", None, DerCorrupt))]
    /\ last = Call("none", 0, NoExc, FALSE, << >>, "", 0)
    /\ lastArgs = NoArgs

Live(s) == keys[s].state = "ok"

\* RSAKey(msg, data, filename, password, key, file_obj)
Construct(s, a, record) ==
    /\ keys[s].state = "new"
    /\ LET r == RSAKeyInit(a, files)
           packet == IF r.source # "msg" THEN << >>
                     ELSE IF IsNone(a.msg) THEN Get(a.data) ELSE Get(a.msg)
       IN  /\ keys' = [keys EXCEPT ![s] =
                          Instance(IF r.exc = NoExc THEN "ok" ELSE "failed", r.key)]
           /\ last' = Call("init", s, r.exc, FALSE, packet, r.source, r.mpints)
    /\ lastArgs' = IF record THEN a ELSE NoArgs
    /\ UNCHANGED files

\* RSAKey.generate(bits)
Generate(s, bits) ==
    /\ keys[s].state = "new"
    /\ LET g == generate_private_key(bits)
           r == RSAKeyInit(Args(None, None, None, None, Some(g.key), None), files)
       IN  IF g.exc # NoExc
           THEN /\ last' = Call("generate", s, g.exc, FALSE, << >>, "generate", 0)
                /\ UNCHANGED keys
           ELSE /\ keys' = [keys EXCEPT ![s] = Instance("ok", r.key)]
                /\ last' = Call("generate", s, r.exc, FALSE, << >>, "generate", 0)
    /\ lastArgs' = NoArgs
    /\ UNCHANGED files

\* The instance goes out of scope.
Discard(s) ==
    /\ keys[s].state # "new"
    /\ keys' = [keys EXCEPT ![s] = Instance("new", NoneKey)]
    /\ last' = Call("del", s, NoExc, FALSE, << >>, "", 0)
    /\ lastArgs' = NoArgs
    /\ UNCHANGED files

\* A call that reads the instance and returns.
Returns(op, s, exc, ret, bytes, num) ==
    /\ last' = Call(op, s, exc, ret, bytes, "", num)
    /\ lastArgs' = NoArgs

Size(s) ==
    /\ Live(s)
    /\ Returns("size", s, NoExc, FALSE, << >>, size(keys[s].key))
    /\ UNCHANGED << keys, files >>

GetBits(s) ==
    /\ Live(s)
    /\ Returns("get_bits", s, NoExc, FALSE, << >>, get_bits(keys[s].key))
    /\ UNCHANGED << keys, files >>

PublicNumbersCall(s) ==
    /\ Live(s)
    /\ Returns("public_numbers", s, NoExc, FALSE,
               << public_numbers(keys[s].key).e, public_numbers(keys[s].key).n >>, 0)
    /\ UNCHANGED << keys, files >>

AsBytes(s) ==
    /\ Live(s)
    /\ Returns("asbytes", s, NoExc, FALSE, asbytes(keys[s].key), 0)
    /\ UNCHANGED << keys, files >>

Str(s, py2) ==
    /\ Live(s)
    /\ Returns("__str__", s, NoExc, FALSE, str(keys[s].key, py2), 0)
    /\ UNCHANGED << keys, files >>

Hash(s) ==
    /\ Live(s)
    /\ Returns("__hash__", s, NoExc, FALSE, << >>, hash(keys[s].key))
    /\ UNCHANGED << keys, files >>

GetName(s) ==
    /\ Live(s)
    /\ Returns("get_name", s, NoExc, FALSE, get_name, 0)
    /\ UNCHANGED << keys, files >>

CanSign(s) ==
    /\ Live(s)
    /\ Returns("can_sign", s, NoExc, can_sign(keys[s].key), << >>, 0)
    /\ UNCHANGED << keys, files >>

\* Signature messages a caller may hold: the fixed ones and the one the
\* last sign_ssh_data returned.
HeldSigMsgs ==
    SigMsgs \cup (IF last.op = "sign_ssh_data" /\ last.exc = NoExc
                  THEN { last.bytes } ELSE { })

SignSshData(s, data, api) ==
    /\ Live(s)
    /\ LET r == sign_ssh_data(keys[s].key, data, api)
       IN  /\ keys' = [keys EXCEPT ![s].key = r.key]
           /\ last' = [Call("sign_ssh_data", s, r.exc, FALSE, r.msg, "", 0)
                          EXCEPT !.data = data]
    /\ lastArgs' = NoArgs
    /\ UNCHANGED files

VerifySshSig(s, data, msg, api, record) ==
    /\ Live(s)
    /\ LET r == verify_ssh_sig(keys[s].key, data, msg, api)
       IN  /\ keys' = [keys EXCEPT ![s].key = r.key]
           /\ last' = IF record
                      THEN [Call("verify_ssh_sig", s, r.exc, r.ret, msg, "", 0)
                               EXCEPT !.data = data]
                      ELSE Call("verify_ssh_sig", s, r.exc, r.ret, << >>, "", 0)
    /\ lastArgs' = NoArgs
    /\ UNCHANGED files

WritePrivateKeyFile(s, filename, password) ==
    /\ Live(s)
    /\ LET r == write_private_key(keys[s].key, password)
       IN  /\ keys' = [keys EXCEPT ![s].key = r.key]
           /\ files' = IF r.exc = NoExc THEN [files EXCEPT ![filename] = r.out]
                       ELSE files
           /\ last' = Call("write_private_key_file", s, r.exc, FALSE, << >>, "", 0)
    /\ lastArgs' = NoArgs

WritePrivateKey(s, password) ==
    /\ Live(s)
    /\ LET r == write_private_key(keys[s].key, password)
       IN  /\ keys' = [keys EXCEPT ![s].key = r.key]
           /\ last' = Call("write_private_key", s, r.exc, FALSE, << >>, "", 0)
    /\ lastArgs' = NoArgs
    /\ UNCHANGED files

Next ==
    \/ \E s \in Slots, a \in UsualArgs : Construct(s, a, FALSE)
    \/ \E s \in Slots, bits \in GenerateBits : Generate(s, bits)
    \/ \E s \in Slots : Discard(s)
    \/ \E s \in Slots : Size(s)
    \/ \E s \in Slots : GetBits(s)
    \/ \E s \in Slots : PublicNumbersCall(s)
    \/ \E s \in Slots : AsBytes(s)
    \/ \E s \in Slots, py2 \in BOOLEAN : Str(s, py2)
    \/ \E s \in Slots : Hash(s)
    \/ \E s \in Slots : GetName(s)
    \/ \E s \in Slots : CanSign(s)
    \/ \E s \in Slots, d \in Payloads, api \in ProviderApis : SignSshData(s, d, api)
    \/ \E s \in Slots, d \in Payloads, m \in UsualSigMsgs, api \in ProviderApis :
          VerifySshSig(s, d, m, api, FALSE)
    \/ \E s \in Slots, f \in Filenames, p \in Passwords : WritePrivateKeyFile(s, f, p)
    \/ \E s \in Slots, p \in Passwords : WritePrivateKey(s, p)

Spec == Init /\ [][Next]_vars

\* Construction alone, with every combination of sources, the arguments
\* recorded.
NextInit ==
    \/ \E a \in AllArgs \cup UsualArgs : Construct(1, a, TRUE)
    \/ Discard(1)

SpecInit == Init /\ [][NextInit]_vars

\* Signing and verifying alone, with every payload and every signature
\* message held, the arguments recorded.
NextSig ==
    \/ \E s \in Slots, a \in SigArgs : Construct(s, a, FALSE)
    \/ \E s \in Slots : Generate(s, 17)
    \/ \E s \in Slots : Discard(s)
    \/ \E s \in Slots, d \in Payloads, api \in ProviderApis : SignSshData(s, d, api)
    \/ \E s \in Slots, d \in Payloads, m \in HeldSigMsgs, api \in ProviderApis :
          VerifySshSig(s, d, m, api, TRUE)

SpecSig == Init /\ [][NextSig]_vars

(***************************************************************************)
(* Properties                                                              *)
(***************************************************************************)
Present(o) == ~IsNone(o)

\* The arguments with every source but one group removed.
OnlySource(a, src) ==
    CASE src = "file_obj" -> Args(None, None, None, a.password, None, a.file_obj)
      [] src = "filename" -> Args(None, None, a.filename, a.password, None, None)
      [] src = "msg" -> Args(a.msg, a.data, None, None, None, None)
      [] src = "key" -> Args(None, None, None, None, a.key, None)
      [] OTHER -> NoArgs

\* stream > path > message/raw data > key handle
MessageFirst(a) ==
    IF Present(a.file_obj) THEN "file_obj"
    ELSE IF Present(a.filename) THEN "filename"
    ELSE IF Present(a.msg) \/ Present(a.data) THEN "msg"
    ELSE IF Present(a.key) THEN "key"
    ELSE "none"

\* stream > path > key handle > message/raw data
HandleFirst(a) ==
    IF Present(a.file_obj) THEN "file_obj"
    ELSE IF Present(a.filename) THEN "filename"
    ELSE IF Present(a.key) THEN "key"
    ELSE IF Present(a.msg) \/ Present(a.data) THEN "msg"
    ELSE "none"

\* The last construction came out as the construction from `a` does.
BuiltAs(a) ==
    LET r == RSAKeyInit(a, files)
    IN  /\ keys[last.slot].key = r.key
        /\ keys[last.slot].state = (IF r.exc = NoExc THEN "ok" ELSE "failed")
        /\ last.exc = r.exc
        /\ last.src = r.source

\* C1 as stated: whatever sources are supplied together, the outcome of a
\* construction is the one the highest-priority source alone gives, in the
\* order stream > path > message/raw data > key handle.
C1_MessageBeforeHandle ==
    last.op = "init" => BuiltAs(OnlySource(lastArgs, MessageFirst(lastArgs)))

\* C1, amended: whatever sources are supplied together, the outcome of a
\* construction is the one the highest-priority source alone gives, in the
\* order stream > path > key handle > message/raw data; with a message and
\* raw data together it is the message that is parsed.
C1_HandleBeforeMessage ==
    last.op = "init" =>
        /\ BuiltAs(OnlySource(lastArgs, HandleFirst(lastArgs)))
        /\ last.src = HandleFirst(lastArgs)
        /\ (last.src = "msg" /\ Present(lastArgs.msg) => last.bytes = Get(lastArgs.msg))

\* A key handle and an invalid message were supplied together, and the
\* handle became the key.
C1_Witness ==
    /\ last.op = "init"
    /\ IsNone(lastArgs.file_obj) /\ IsNone(lastArgs.filename)
    /\ lastArgs.msg = Some(WireBadName)
    /\ Present(lastArgs.key)
    /\ Live(last.slot)
    /\ keys[last.slot].key = Get(lastArgs.key)

\* What verify_ssh_sig found in its arguments at the last call.
VerifiedName == get_text(last.bytes, 0)
VerifiedSig == get_binary(last.bytes, VerifiedName.pos)
VerifyingKey ==
    LET k == keys[last.slot].key
    IN  IF isinstance(k, "RSAPrivateKey") THEN public_key(k) ELSE k
ProviderVerdict == ProviderVerify(VerifyingKey, VerifiedSig.val, last.data)

FromWire(k) == RSAKeyInit(Args(None, Some(asbytes(k)), None, None, None, None), files)

\* C3: a private key signs every bytes payload; the message it returns is
\* accepted for that payload by the key itself and by the public-only key
\* built from its wire encoding, and holds the name "ssh-rsa" and then the
\* signature bytes, nothing else.
C3_SignThenVerify ==
    last.op = "sign_ssh_data" =>
        LET k == keys[last.slot].key
            name == get_text(last.bytes, 0)
            sig == get_binary(last.bytes, name.pos)
        IN  /\ (can_sign(k) /\ last.data.type = "bytes" => last.exc = NoExc)
            /\ (last.exc = NoExc =>
                  /\ can_sign(k)
                  /\ name.ok /\ name.val = SSH_RSA
                  /\ sig.ok /\ sig.val = ProviderSign(k, last.data).sig
                  /\ sig.pos = Len(last.bytes)
                  /\ FromWire(k).exc = NoExc
                  /\ ~can_sign(FromWire(k).key)
                  /\ \A api \in ProviderApis :
                        /\ verify_ssh_sig(k, last.data, last.bytes, api).exc = NoExc
                        /\ verify_ssh_sig(k, last.data, last.bytes, api).ret
                        /\ verify_ssh_sig(FromWire(k).key, last.data, last.bytes,
                                          api).exc = NoExc
                        /\ verify_ssh_sig(FromWire(k).key, last.data, last.bytes,
                                          api).ret)

\* A public-only key built from a wire encoding accepted the message that
\* the private key with the same numbers, in the other slot, signs.
C3_Witness ==
    /\ last.op = "verify_ssh_sig"
    /\ last.exc = NoExc /\ last.ret
    /\ ~can_sign(keys[last.slot].key)
    /\ \E s \in Slots :
          /\ s # last.slot
          /\ Live(s)
          /\ can_sign(keys[s].key)
          /\ asbytes(keys[s].key) = asbytes(keys[last.slot].key)
          /\ sign_ssh_data(keys[s].key, last.data, "oneshot").msg = last.bytes

\* RSAKey(msg=Message(k.asbytes()))
FromWireMessage(k) ==
    RSAKeyInit(Args(Some(asbytes(k)), None, None, None, None, None), files)

\* C4: for every key, private or public-only, asbytes() holds the name
\* "ssh-rsa", then e, then n and nothing else, and the constructor given
\* those bytes (as raw data or as a message) succeeds with a public-only
\* key that has the same (e, n).
C4_WireRoundTrip ==
    \A s \in Slots : Live(s) =>
        LET k == keys[s].key
            b == asbytes(k)
            name == get_text(b, 0)
            e == get_mpint(b, name.pos)
            n == get_mpint(b, e.pos)
        IN  /\ name.ok /\ name.val = SSH_RSA
            /\ e.ok /\ e.val = public_numbers(k).e
            /\ n.ok /\ n.val = public_numbers(k).n
            /\ n.pos = Len(b)
            /\ \A r \in { FromWire(k), FromWireMessage(k) } :
                  /\ r.exc = NoExc
                  /\ r.mpints = 2
                  /\ isinstance(r.key, "RSAPublicKey")
                  /\ ~HoldsPrivateMaterial(r.key)
                  /\ public_numbers(r.key) = public_numbers(k)
                  /\ asbytes(r.key) = b

\* A key was just built from the wire encoding of the private key in the
\* other slot, whose modulus has its top bit set.
C4_Witness ==
    /\ last.op = "init" /\ last.src = "msg"
    /\ Live(last.slot)
    /\ \E s \in Slots :
          /\ s # last.slot
          /\ Live(s)
          /\ HoldsPrivateMaterial(keys[s].key)
          /\ keys[s].key.n >= 128
          /\ last.bytes = asbytes(keys[s].key)
          /\ public_numbers(keys[last.slot].key) = public_numbers(keys[s].key)

\* C5: a construction that parses a wire message (given as a message or as
\* raw data) whose first field is not exactly "ssh-rsa" raises
\* SSHException("Invalid key") before any integer is read and leaves the
\* key unset.
C5_InvalidKey ==
    (/\ last.op = "init"
     /\ last.src = "msg"
     /\ get_text(last.bytes, 0).ok
     /\ get_text(last.bytes, 0).val # SSH_RSA)
        => /\ last.exc = Exc("SSHException", "Invalid key")
           /\ last.num = 0
           /\ keys[last.slot].state = "failed"
           /\ keys[last.slot].key = NoneKey

\* A message named with a proper extension of "ssh-rsa", followed by valid
\* numbers, was rejected.
C5_Witness ==
    /\ last.op = "init"
    /\ last.src = "msg"
    /\ last.bytes = WireNamed(SSH_RSA \o << 0 >>)
    /\ last.exc = Exc("SSHException", "Invalid key")

\* A message is malformed when one of its three fields runs past the end
\* of the packet, or when the bytes of its last integer do not end where
\* its length prefix says.
Malformed(packet) ==
    LET name == get_text(packet, 0)
        e == get_mpint(packet, name.pos)
        n == get_mpint(packet, e.pos)
    IN  ~name.ok \/ ~e.ok \/ ~n.ok \/ n.pos # Len(packet)

\* C6 as stated: a construction that parses a malformed wire message
\* raises a protocol error and builds no key.
C6_MalformedRejected ==
    (last.op = "init" /\ last.src = "msg" /\ Malformed(last.bytes))
        => /\ last.exc.cls = "SSHException"
           /\ keys[last.slot].state = "failed"
           /\ keys[last.slot].key = NoneKey

\* C7: a constructed RSAKey answers can_sign() with true exactly when it
\* holds private key material; it does after a construction from a
\* private-key stream or path and after generate(), which also has
\* e = 65537, and it does not after a construction from a wire message or
\* raw data.
C7_CanSignIffPrivate ==
    /\ \A s \in Slots : Live(s) =>
          (can_sign(keys[s].key) <=> HoldsPrivateMaterial(keys[s].key))
    /\ (last.op = "can_sign" =>
          (last.ret <=> HoldsPrivateMaterial(keys[last.slot].key)))
    /\ (last.op = "init" /\ Live(last.slot) /\ last.src \in { "file_obj", "filename" }
          => can_sign(keys[last.slot].key))
    /\ (last.op = "init" /\ Live(last.slot) /\ last.src = "msg"
          => ~can_sign(keys[last.slot].key))
    /\ (last.op = "generate" /\ last.exc = NoExc
          => /\ Live(last.slot)
             /\ can_sign(keys[last.slot].key)
             /\ public_numbers(keys[last.slot].key).e = 65537)

\* can_sign() answered true on a private key whose container is at a path,
\* while the other slot holds a public-only key.
C7_Witness ==
    /\ last.op = "can_sign" /\ last.ret
    /\ \E s \in Slots : Live(s) /\ ~can_sign(keys[s].key)
    /\ \E f \in Filenames :
          /\ Present(files[f])
          /\ Get(files[f]).der = Der("rsa", KeyPair(keys[last.slot].key.n,
                                                    keys[last.slot].key.e,
                                                    keys[last.slot].key.d))

\* C8: two RSAKey instances with the same (e, n) have the same hash and
\* the same asbytes(), whether or not they hold private material; two with
\* different (e, n) have different asbytes().
C8_IdentityIsPublicNumbers ==
    \A s \in Slots, t \in Slots : Live(s) /\ Live(t) =>
        /\ public_numbers(keys[s].key) = public_numbers(keys[t].key)
              => /\ hash(keys[s].key) = hash(keys[t].key)
                 /\ asbytes(keys[s].key) = asbytes(keys[t].key)
        /\ public_numbers(keys[s].key) # public_numbers(keys[t].key)
              => asbytes(keys[s].key) # asbytes(keys[t].key)

\* __hash__ was just called on a private key while the other slot holds
\* the public-only key with the same numbers.
C8_Witness ==
    /\ last.op = "__hash__"
    /\ HoldsPrivateMaterial(keys[last.slot].key)
    /\ \E s \in Slots :
          /\ Live(s)
          /\ ~HoldsPrivateMaterial(keys[s].key)
          /\ public_numbers(keys[s].key) = public_numbers(keys[last.slot].key)
          /\ last.num = hash(keys[s].key)

\* The private-key parser was reached by the last construction and failed.
ParserFailed ==
    /\ last.op = "init"
    /\ last.src \in { "file_obj", "filename" }
    /\ LET a == lastArgs
           d == IF last.src = "file_obj"
                THEN _read_private_key("RSA", Get(a.file_obj), a.password)
                ELSE _read_private_key_file("RSA", Get(a.filename), a.password, files)
       IN  d.exc = NoExc /\ load_der_private_key(d.data).exc # NoExc

\* C9 as stated: when the private-key parser fails in a construction from
\* a stream or a path, the construction raises SSHException with the
\* parser's message and leaves the key unset.
C9_ParserFailureIsSSHException ==
    ParserFailed =>
        /\ last.exc.cls = "SSHException"
        /\ keys[last.slot].state = "failed"
        /\ keys[last.slot].key = NoneKey

PublicOps ==
    { "size", "get_bits", "public_numbers", "asbytes", "__str__", "__hash__",
      "get_name", "can_sign", "sign_ssh_data", "verify_ssh_sig",
      "write_private_key", "write_private_key_file" }

\* C10: no public operation, returning or raising, changes a constructed
\* instance: its key handle, and with it its public-only/private state and
\* its (e, n), stay as construction left them until it is discarded.
C10_ImmutableAfterConstruction ==
    [][ /\ (last'.op \in PublicOps => keys' = keys)
        /\ \A s \in Slots : Live(s) /\ keys'[s].state = "ok" => keys'[s] = keys[s]
      ]_vars

\* A public operation raised on a constructed instance.
C10_Witness ==
    /\ last.op \in { "sign_ssh_data", "verify_ssh_sig", "write_private_key_file" }
    /\ last.exc # NoExc
    /\ Live(last.slot)

====
